---- MODULE Spec2Model ----
(***************************************************************************)
(* Authorization-filtered search pipeline of doc_semantic_search:          *)
(* SecureSearchService (services/secureSearch.js) on top of                *)
(* PermitService.checkPermission (services/permit.js) and                  *)
(* AlgoliaService (services/algolia.js).                                   *)
(*                                                                         *)
(* JavaScript objects are functions from field names to values; a field    *)
(* that is undefined or null is a name outside the DOMAIN.  `delete o.f`   *)
(* restricts the DOMAIN.  A value that may be null (a slot of              *)
(* batchResults) is a sequence of length 0 (null) or 1 (the value).        *)
(***************************************************************************)
EXTENDS Integers, Sequences, FiniteSets, TLC

(* ------------------------------ bounds --------------------------------- *)
\* longest hit list the search backend returns in the full pipeline
MaxHits == 2
\* longest hit list in the batching specification (more than one window)
MaxBatchHits == 12

(* --------------------------- object helpers ---------------------------- *)
Has(o, f) == f \in DOMAIN o

Delete(o, f) == [g \in (DOMAIN o) \ {f} |-> o[g]]

Pick(o, fs) == [g \in (DOMAIN o) \cap fs |-> o[g]]

Range(s) == {s[n] : n \in 1..Len(s)}

Min(a, b) == IF a <= b THEN a ELSE b

(* ------------------------- time and "HH:MM" ---------------------------- *)
\* characters of an "HH:MM" string: the digits are 0..9, ':' sorts after '9'
Colon == 10

\* Date.prototype.toTimeString().slice(0, 5) of an instant given in minutes
toTimeString5(t) ==
  LET h == (t % 1440) \div 60
      m == t % 60
  IN  <<h \div 10, h % 10, Colon, m \div 10, m % 10>>

RECURSIVE StrLess(_, _)
\* JavaScript string comparison a < b: lexicographic on the characters
StrLess(a, b) ==
  IF Len(b) = 0 THEN FALSE
  ELSE IF Len(a) = 0 THEN TRUE
  ELSE IF Head(a) # Head(b) THEN Head(a) < Head(b)
  ELSE StrLess(Tail(a), Tail(b))

StrLeq(a, b) == a = b \/ StrLess(a, b)

\* the instants at which the clock is read (minutes; 08:00 = 480, 16:00 = 960)
ClockSamples == {479, 480, 960, 961}

(* ------------------------------ requesters ----------------------------- *)
Roles == {"hospital_admin", "attending_physician", "resident_doctor",
          "registered_nurse", "temp_staff"}

Empty == [x \in {} |-> x]

ShiftParts == { Empty,
                [shiftStart |-> toTimeString5(480)],
                [shiftStart |-> toTimeString5(480), shiftEnd |-> toTimeString5(960)] }

\* an access expiry between the clock samples (11:40)
ExpiryParts == { Empty, [accessExpiry |-> 700] }

AssignedParts == { Empty, [assignedPatients |-> <<"P1">>], [assignedPatients |-> <<>>] }

\* req.user as built by the JWT middleware
Users ==
  { [id |-> "u1", role |-> r, department |-> "cardiology", emergencyAccess |-> e]
      @@ s @@ x @@ a :
    r \in Roles, e \in BOOLEAN, s \in ShiftParts, x \in ExpiryParts, a \in AssignedParts }

(* ---------------------------- search index ----------------------------- *)
\* records handed to the indexer
Database ==
  { [id |-> 1, patientId |-> "P1", patientName |-> "Ann", department |-> "cardiology",
     recordType |-> "patient_record"],
    [id |-> 2, patientId |-> "P2", patientName |-> "Bob", department |-> "cardiology",
     recordType |-> "patient_record", sensitivityLevel |-> "normal"],
    [id |-> 3, patientId |-> "P1", patientName |-> "Ann", department |-> "cardiology",
     recordType |-> "lab_result", sensitivityLevel |-> "high"],
    [id |-> 4, patientId |-> "P3", patientName |-> "Dan", department |-> "oncology",
     recordType |-> "patient_record", sensitivityLevel |-> "normal"] }

\* record.f as a field of the built object: undefined values leave no field
Field(name, o, f) == IF Has(o, f) THEN name :> o[f] ELSE Empty

indexPatientRecord(record) ==
  ("objectID" :> record.id)
    @@ Field("patient_id", record, "patientId")
    @@ Field("patient_name", record, "patientName")
    @@ Field("record_type", record, "recordType")
    @@ Field("department", record, "department")
    @@ Field("_department", record, "department")
    @@ Field("_patient_id", record, "patientId")
    @@ ("_sensitivity_level" :>
          (IF Has(record, "sensitivityLevel") THEN record.sensitivityLevel ELSE "normal"))

\* the index setting attributesToRetrieve written by initializeIndex
attributesToRetrieve == {"objectID", "patient_id", "patient_name", "record_type", "department"}

\* one hit of index.search: the stored object, whole ('*', the index default)
\* or cut down to attributesToRetrieve once initializeIndex has run
IndexHits(retrieveAll) ==
  { IF retrieveAll THEN indexPatientRecord(r)
    ELSE Pick(indexPatientRecord(r), attributesToRetrieve) : r \in Database }

\* hit lists with distinct objectIDs, at most n long
HitLists(retrieveAll, n) ==
  { h \in UNION { [1..m -> IndexHits(retrieveAll)] : m \in 0..n } :
      \A a, b \in 1..Len(h) : a # b => h[a].objectID # h[b].objectID }

\* the hit list of the batching specification: n records, two patients in turn
BatchHits(n) ==
  [k \in 1..n |-> indexPatientRecord(
     [id |-> k, patientId |-> (IF k % 2 = 1 THEN "P1" ELSE "P2"),
      department |-> "cardiology", recordType |-> "patient_record"])]

\* the hit lists the backend may answer a search with
SearchLists == HitLists(TRUE, MaxHits) \cup HitLists(FALSE, MaxHits)

\* matches the backend counts in nbHits beyond the page of hits it returns
TotalExtras == 0..1

\* nbHits equal to the number of hits returned
NoExtras == {0}

\* {...a, ...b}: the fields of b replace those of a
Assign(a, b) == b @@ a

\* the index attribute each filter key of buildFilters is written against
FilterAttribute ==
  [department |-> "department", recordType |-> "record_type",
   dateRange |-> "date_range", priorityLevel |-> "priority_level"]

\* the filter string as its set of attribute:"value" parts joined by AND; a
\* key buildFilters does not test, or one with an empty value, leaves no part
buildFilters(filters) ==
  { <<FilterAttribute[f], filters[f]>> :
      f \in { g \in DOMAIN filters \cap DOMAIN FilterAttribute : filters[g] # "" } }

\* the searchParams searchRecords hands to index.search
searchParams(query, opts) ==
  [query |-> query,
   hitsPerPage |-> (IF Has(opts, "limit") /\ opts.limit # 0 THEN opts.limit ELSE 20),
   filters |-> buildFilters(IF Has(opts, "filters") THEN opts.filters ELSE Empty)]

\* index.search answers the call with these hits and nbHits = Len(hits) + more:
\* a page of at most hitsPerPage objects, each satisfying every part of the
\* filter string; matches are left over only behind a full page
IndexAnswers(hits, more, call) ==
  LET params == searchParams(call.query, call.options)
  IN  /\ Len(hits) <= params.hitsPerPage
      /\ more > 0 => Len(hits) = params.hitsPerPage
      /\ \A k \in 1..Len(hits) : \A part \in params.filters :
           Has(hits[k], part[1]) /\ hits[k][part[1]] = part[2]

(* ------------------- PermitService (services/permit.js) ---------------- *)
\* JavaScript values the policy client's check() may resolve with
Bool(b) == [t |-> "boolean", v |-> b]
Undefined == [t |-> "undefined"]
Null == [t |-> "null"]
Str(s) == [t |-> "string", v |-> s]
Num(n) == [t |-> "number", v |-> n]
Obj(o) == [t |-> "object", o |-> o]

PolicyValues ==
  { Bool(TRUE), Bool(FALSE), Null, Undefined, Str("allow"), Str(""), Num(1), Num(0),
    Obj([allow |-> Bool(TRUE)]), Obj([allow |-> Bool(FALSE)]), Obj([allow |-> Str("true")]),
    Obj([allow |-> Num(1)]), Obj(Empty), Obj([decision |-> Bool(TRUE)]) }

\* how one call of permit.check settles
Resolves(v) == [rejects |-> FALSE, value |-> v]
Rejects == [rejects |-> TRUE]

PolicyOutcomes == { Resolves(v) : v \in PolicyValues } \cup { Rejects }

\* the outcomes drawn in the pipeline specifications
PipelineOutcomes == { Resolves(Obj([allow |-> Bool(TRUE)])), Resolves(Bool(FALSE)), Rejects }

Truthy(v) ==
  CASE v.t = "boolean" -> v.v
    [] v.t = "string" -> v.v # ""
    [] v.t = "number" -> v.v # 0
    [] v.t = "object" -> TRUE
    [] OTHER -> FALSE

typeof(v) == IF v.t = "null" THEN "object" ELSE v.t

StrictEqualsTrue(v) == v.t = "boolean" /\ v.v = TRUE

\* decision.allow
Member(v, f) == IF v.t = "object" /\ Has(v.o, f) THEN v.o[f] ELSE Undefined

mapRoleToPermit(internalRole) ==
  CASE internalRole = "hospital_admin" -> "admin"
    [] internalRole \in {"department_head", "attending_physician", "resident_doctor",
                         "radiologist"} -> "doctor"
    [] internalRole \in {"registered_nurse", "nurse_practitioner", "lab_technician",
                         "pharmacist"} -> "nurse"
    [] internalRole = "temp_staff" -> "temporary_staff"
    [] OTHER -> internalRole

mapActionToPermit(action) ==
  CASE action = "read" -> "view"
    [] action = "write" -> "update"
    [] action = "audit" -> "auditquery"
    [] OTHER -> action

mapResourceToPermit(resourceType) ==
  IF resourceType \in {"patient_record", "lab_result", "imaging_study", "medication_record",
                       "vital_signs", "discharge_summary"}
  THEN "patient_records"
  ELSE resourceType

isShiftActive(u, now) ==
  IF ~Has(u, "shiftStart") \/ ~Has(u, "shiftEnd")
  THEN TRUE
  ELSE LET currentTime == toTimeString5(now)
       IN  StrLeq(u.shiftStart, currentTime) /\ StrLeq(currentTime, u.shiftEnd)

\* the arguments checkPermission passes to permit.check
permitQuery(u, action, resource, now) ==
  [user |-> [key |-> u.id,
             attributes |->
               ("role" :> mapRoleToPermit(u.role))
                 @@ ("department" :> u.department)
                 @@ ("shift_active" :> isShiftActive(u, now))
                 @@ Field("access_expiry", u, "accessExpiry")
                 @@ ("assigned_patients" :>
                       (IF Has(u, "assignedPatients") THEN u.assignedPatients ELSE <<>>))],
   action |-> mapActionToPermit(action),
   resource |-> [type |-> mapResourceToPermit(resource.type),
                 key |-> resource.id,
                 attributes |->
                   Field("department", resource, "department")
                     @@ ("assigned_doctor_id" :> u.id)
                     @@ ("senstivity_level" :>
                           (IF Has(resource, "sensitivityLevel")
                            THEN resource.sensitivityLevel ELSE "normal"))
                     @@ ("is_anonymized" :> FALSE)]]

\* checkPermission with `if (decision) return true` as the normalisation
checkPermission_truthy(u, action, resource, out) ==
  IF out.rejects
  THEN [threw |-> FALSE, value |-> FALSE]
  ELSE [threw |-> FALSE, value |-> Truthy(out.value)]

\* checkPermission whose catch block rethrows
checkPermission_rethrows(u, action, resource, out) ==
  IF out.rejects
  THEN [threw |-> TRUE, value |-> FALSE]
  ELSE [threw |-> FALSE,
        value |-> StrictEqualsTrue(out.value)
                    \/ (Truthy(out.value) /\ typeof(out.value) = "object"
                        /\ StrictEqualsTrue(Member(out.value, "allow")))]

\* checkPermission whose catch block returns true
checkPermission_failOpen(u, action, resource, out) ==
  IF out.rejects
  THEN [threw |-> FALSE, value |-> TRUE]
  ELSE [threw |-> FALSE,
        value |-> StrictEqualsTrue(out.value)
                    \/ (Truthy(out.value) /\ typeof(out.value) = "object"
                        /\ StrictEqualsTrue(Member(out.value, "allow")))]

\* what `await checkPermission(...)` gives its caller when permit.check settles with out
checkPermission(u, action, resource, out) ==
  IF out.rejects
  THEN [threw |-> FALSE, value |-> FALSE]
  ELSE LET decision == out.value
       IN  IF StrictEqualsTrue(decision)
           THEN [threw |-> FALSE, value |-> TRUE]
           ELSE IF Truthy(decision) /\ typeof(decision) = "object"
                   /\ StrictEqualsTrue(Member(decision, "allow"))
                THEN [threw |-> FALSE, value |-> TRUE]
                ELSE [threw |-> FALSE, value |-> FALSE]

(* ------------- SecureSearchService (services/secureSearch.js) ---------- *)
batchSize == 10

\* the resource object built for a hit
resourceOf(result) ==
  ("type" :> (IF Has(result, "record_type") THEN result.record_type ELSE "patient_record"))
    @@ ("id" :> result.objectID)
    @@ Field("department", result, "_department")
    @@ Field("patientId", result, "_patient_id")
    @@ Field("sensitivityLevel", result, "_sensitivity_level")

\* sanitize without `delete sanitizedResult._patient_id`
sanitize_keepsPatientId(result) == Delete(Delete(result, "_department"), "_sensitivity_level")

\* the copy with the internal security fields deleted
sanitize(result) == Delete(Delete(Delete(result, "_department"), "_patient_id"), "_sensitivity_level")

\* the value one task of batch.map(async ...) resolves with: <<>> is null
batchTask(u, result, action, out) ==
  LET hasPermission == checkPermission(u, action, resourceOf(result), out)
  IN  IF hasPermission.threw THEN <<>>
      ELSE IF hasPermission.value THEN <<sanitize(result)>>
      ELSE <<>>

\* sanitizing in place: `const sanitizedResult = result`
afterSanitize_inPlace(result) == sanitize(result)

\* the object handed to the sanitizer, after it: `{ ...result }` is a copy and
\* the three deletes act on the copy
afterSanitize(result) == result

\* the hit a batch task was mapped over, after the task
afterBatchTask(u, result, action, out) ==
  IF batchTask(u, result, action, out) # <<>> THEN afterSanitize(result) ELSE result

\* isWithinShiftHours with the bounds exclusive
isWithinShiftHours_exclusive(u, now) ==
  IF ~Has(u, "shiftStart") \/ ~Has(u, "shiftEnd")
  THEN TRUE
  ELSE LET currentTime == toTimeString5(now)
       IN  StrLess(u.shiftStart, currentTime) /\ StrLess(currentTime, u.shiftEnd)

\* isWithinShiftHours reading a start later than the end as a shift over midnight
isWithinShiftHours_wraps(u, now) ==
  IF ~Has(u, "shiftStart") \/ ~Has(u, "shiftEnd")
  THEN TRUE
  ELSE LET currentTime == toTimeString5(now)
       IN  IF StrLeq(u.shiftStart, u.shiftEnd)
           THEN StrLeq(u.shiftStart, currentTime) /\ StrLeq(currentTime, u.shiftEnd)
           ELSE StrLeq(u.shiftStart, currentTime) \/ StrLeq(currentTime, u.shiftEnd)

isWithinShiftHours(u, now) ==
  IF ~Has(u, "shiftStart") \/ ~Has(u, "shiftEnd")
  THEN TRUE
  ELSE LET currentTime == toTimeString5(now)
       IN  StrLeq(u.shiftStart, currentTime) /\ StrLeq(currentTime, u.shiftEnd)

\* a boolean field read in a condition: undefined counts as false
Flag(o, f) == Has(o, f) /\ o[f]

highSensitivityRoles == {"hospital_admin", "department_head", "attending_physician"}

canAccessHighSensitivity(u) == u.role \in highSensitivityRoles

\* the filter callback without the emergency override
securityRule_noEmergency(u, result, now) ==
  IF u.role = "temp_staff" /\ Has(u, "accessExpiry") /\ u.accessExpiry < now
  THEN "expiry"
  ELSE IF u.role \in {"registered_nurse", "resident_doctor"} /\ ~isWithinShiftHours(u, now)
  THEN "shift"
  ELSE IF u.role = "registered_nurse" /\ Has(u, "assignedPatients")
          /\ ~(Has(result, "patient_id") /\ result.patient_id \in Range(u.assignedPatients))
  THEN "assignment"
  ELSE IF Has(result, "sensitivity_level") /\ result.sensitivity_level = "high"
          /\ ~canAccessHighSensitivity(u)
  THEN "sensitivity"
  ELSE "pass"

\* the filter callback with the expiry comparison turned round
securityRule_expiryReversed(u, result, now) ==
  IF Flag(u, "emergencyAccess") THEN "pass"
  ELSE IF u.role = "temp_staff" /\ Has(u, "accessExpiry") /\ u.accessExpiry > now
  THEN "expiry"
  ELSE IF u.role \in {"registered_nurse", "resident_doctor"} /\ ~isWithinShiftHours(u, now)
  THEN "shift"
  ELSE IF u.role = "registered_nurse" /\ Has(u, "assignedPatients")
          /\ ~(Has(result, "patient_id") /\ result.patient_id \in Range(u.assignedPatients))
  THEN "assignment"
  ELSE IF Has(result, "sensitivity_level") /\ result.sensitivity_level = "high"
          /\ ~canAccessHighSensitivity(u)
  THEN "sensitivity"
  ELSE "pass"

\* the filter callback testing the assignment rule against the Permit role name 'nurse'
securityRule_permitRole(u, result, now) ==
  IF Flag(u, "emergencyAccess") THEN "pass"
  ELSE IF u.role = "temp_staff" /\ Has(u, "accessExpiry") /\ u.accessExpiry < now
  THEN "expiry"
  ELSE IF u.role \in {"registered_nurse", "resident_doctor"} /\ ~isWithinShiftHours(u, now)
  THEN "shift"
  ELSE IF u.role = "nurse" /\ Has(u, "assignedPatients")
          /\ ~(Has(result, "patient_id") /\ result.patient_id \in Range(u.assignedPatients))
  THEN "assignment"
  ELSE IF Has(result, "sensitivity_level") /\ result.sensitivity_level = "high"
          /\ ~canAccessHighSensitivity(u)
  THEN "sensitivity"
  ELSE "pass"

\* the filter callback of applySecurityFilters: "pass", or the rule that returns false
securityRule(u, result, now) ==
  IF Flag(u, "emergencyAccess") THEN "pass"
  ELSE IF u.role = "temp_staff" /\ Has(u, "accessExpiry") /\ u.accessExpiry < now
  THEN "expiry"
  ELSE IF u.role \in {"registered_nurse", "resident_doctor"} /\ ~isWithinShiftHours(u, now)
  THEN "shift"
  ELSE IF u.role = "registered_nurse" /\ Has(u, "assignedPatients")
          /\ ~(Has(result, "patient_id") /\ result.patient_id \in Range(u.assignedPatients))
  THEN "assignment"
  ELSE IF Has(result, "sensitivity_level") /\ result.sensitivity_level = "high"
          /\ ~canAccessHighSensitivity(u)
  THEN "sensitivity"
  ELSE "pass"

applySecurityFilters(u, results, now) ==
  SelectSeq(results, LAMBDA result : securityRule(u, result, now) = "pass")

\* the batch merged with unshift instead of push
pushBatch_unshift(authorized, slots, lo, hi) ==
  LET positions == [n \in 1..(hi - lo + 1) |-> lo + n - 1]
      kept == SelectSeq(positions, LAMBDA k : slots[k] # <<>>)
  IN  [n \in 1..Len(kept) |-> slots[kept[n]][1]] \o authorized

\* authorizedResults.push(...batchResults.filter(result => result !== null))
pushBatch(authorized, slots, lo, hi) ==
  LET positions == [n \in 1..(hi - lo + 1) |-> lo + n - 1]
      kept == SelectSeq(positions, LAMBDA k : slots[k] # <<>>)
  IN  authorized \o [n \in 1..Len(kept) |-> slots[kept[n]][1]]

(* ------------------------------- state --------------------------------- *)
VARIABLES
  user,              \* the requester of the invocation
  clock,             \* the instant new Date() gives during the invocation, in minutes
  op,                \* "none", "checkPermission", "secureSearch", "getAuthorizedRecord"
                     \* or "getAuthorizedSuggestions"
  recordId,          \* the recordId argument of getAuthorizedRecord (0 when none)
  pc,                \* "idle", "awaitSearch", "awaitBatch", "awaitCheck", "awaitPermit",
                     \* "awaitSuggestions", "resolved", "rejected"
  searchResults,     \* what searchRecords (or getSuggestions) resolved with: [hits, totalHits]
  i,                 \* the loop variable of filterAuthorizedResults
  pending,           \* positions of the hits whose policy check is in flight
  calls,             \* position -> arguments of the checkPermission call issued for it
  outcome,           \* position -> how permit.check settled for it
  batchResults,      \* position -> value of the settled tasks of the current batch
  authorizedResults, \* the array filterAuthorizedResults accumulates
  result,            \* the value the invocation resolved with, or [error |-> message]
  auditLog,          \* the audit entries written so far
  options,           \* the options argument of secureSearch
  searchCall,        \* the arguments of the call to the search backend (<<>> before it)
  auditError,        \* whether the catch block of an audit logger has run
  req,               \* the HTTP request being served, with the middleware it has reached
  res,               \* the HTTP response sent (no field before it is sent)
  suspended          \* the locals of the other invocations awaiting a promise

vars == <<user, clock, op, recordId, pc, searchResults, i, pending, calls, outcome,
          batchResults, authorizedResults, result, auditLog, options, searchCall, auditError,
          req, res, suspended>>

\* what the pipeline called on its own leaves alone
outside == <<req, res, suspended>>

NoSearch == [hits |-> <<>>, totalHits |-> 0]

Idle ==
  /\ op = "none" /\ recordId = 0 /\ pc = "idle"
  /\ searchResults = NoSearch
  /\ i = 0 /\ pending = {}
  /\ calls = Empty /\ outcome = Empty /\ batchResults = Empty
  /\ authorizedResults = <<>>
  /\ result = Empty
  /\ auditLog = <<>>
  /\ searchCall = <<>>
  /\ auditError = FALSE

\* options = {}, the default of the parameter
NoOptions == Empty

\* the service called directly: no HTTP request, no other invocation
NoRequest == req = Empty /\ res = Empty /\ suspended = <<>>

Init ==
  /\ user \in Users
  /\ clock \in ClockSamples
  /\ options = NoOptions
  /\ Idle
  /\ NoRequest

(* ------------------------------ secureSearch --------------------------- *)
unrestrictedRoles == {"hospital_admin", "admin"}

\* the call with hospital_admin as the only role left unfiltered
secureSearchCall_adminOnly(u, query, opts) ==
  [query |-> query,
   options |->
     Assign(opts,
            [filters |->
               Assign(IF Has(opts, "filters") THEN opts.filters ELSE Empty,
                      IF u.role # "hospital_admin"
                      THEN Field("department", u, "department")
                      ELSE Empty)])]

\* the call with the spread order reversed: the caller's department wins
secureSearchCall_callerWins(u, query, opts) ==
  [query |-> query,
   options |->
     Assign(opts,
            [filters |->
               Assign(IF u.role \notin unrestrictedRoles
                      THEN Field("department", u, "department")
                      ELSE Empty,
                      IF Has(opts, "filters") THEN opts.filters ELSE Empty)])]

\* the arguments secureSearch passes to searchRecords
secureSearchCall(u, query, opts) ==
  [query |-> query,
   options |->
     Assign(opts,
            [filters |->
               Assign(IF Has(opts, "filters") THEN opts.filters ELSE Empty,
                      IF u.role \notin unrestrictedRoles
                      THEN Field("department", u, "department")
                      ELSE Empty)])]

secureSearch ==
  /\ pc = "idle"
  /\ op' = "secureSearch"
  /\ searchCall' = <<secureSearchCall(user, "q", options)>>
  /\ pc' = "awaitSearch"
  /\ UNCHANGED outside
  /\ UNCHANGED <<user, clock, recordId, searchResults, i, pending, calls, outcome,
                 batchResults, authorizedResults, result, auditLog, options, auditError>>

\* the audit log after logSearchActivity; when building or printing the entry
\* throws, the catch block swallows the error and nothing is emitted
logSearchActivity(log, u, resultCount, throws) ==
  IF throws THEN log
  ELSE Append(log, [action |-> "search", userId |-> u.id, userRole |-> u.role,
                    userDepartment |-> u.department, resultCount |-> resultCount])

\* secureSearch with a logSearchActivity that lets its error escape
secureSearchReturn_auditRethrows(sr, authorized) ==
  LET secureResults == applySecurityFilters(user, authorized, clock)
  IN  \E throws \in BOOLEAN :
        /\ auditLog' = logSearchActivity(auditLog, user, Len(secureResults), throws)
        /\ auditError' = throws
        /\ IF throws
           THEN /\ result' = [error |-> "Audit failed"]
                /\ pc' = "rejected"
           ELSE /\ result' = [hits |-> secureResults,
                              totalHits |-> Len(secureResults),
                              securityInfo |->
                                [userRole |-> user.role,
                                 userDepartment |-> user.department,
                                 filteredCount |-> sr.totalHits - Len(secureResults)]]
                /\ pc' = "resolved"

\* steps 3 and 4 of secureSearch and its return value
secureSearchReturn(sr, authorized) ==
  LET secureResults == applySecurityFilters(user, authorized, clock)
  IN  /\ \E throws \in BOOLEAN :
           /\ auditLog' = logSearchActivity(auditLog, user, Len(secureResults), throws)
           /\ auditError' = throws
      /\ result' = [hits |-> secureResults,
                    totalHits |-> Len(secureResults),
                    securityInfo |-> [userRole |-> user.role,
                                      userDepartment |-> user.department,
                                      filteredCount |-> sr.totalHits - Len(secureResults)]]
      /\ pc' = "resolved"

\* one call this.permitService.checkPermission(user, action, resource): its
\* arguments and the query it sends
checkCall(u, action, resource, now) ==
  [action |-> action, resource |-> resource, query |-> permitQuery(u, action, resource, now)]

\* filterAuthorizedResults mapping every remaining hit at once
filterLoop_unbatched(sr, start, authorized) ==
  /\ i' = start
  /\ authorizedResults' = authorized
  /\ batchResults' = Empty
  /\ IF start < Len(sr.hits)
     THEN LET batch == (start + 1)..Len(sr.hits)
          IN  /\ pending' = batch
              /\ calls' = calls @@ [k \in batch |->
                            checkCall(user, "search", resourceOf(sr.hits[k]), clock)]
              /\ pc' = "awaitBatch"
              /\ UNCHANGED <<result, auditLog, auditError>>
     ELSE /\ pending' = {}
          /\ UNCHANGED calls
          /\ secureSearchReturn(sr, authorized)

\* the for loop with windows that overlap by one candidate
filterLoop_overlap(sr, start, authorized) ==
  /\ i' = start
  /\ authorizedResults' = authorized
  /\ batchResults' = Empty
  /\ IF start < Len(sr.hits)
     THEN LET batch == (IF start = 0 THEN 1 ELSE start)
                         ..Min(start + batchSize, Len(sr.hits))
          IN  /\ pending' = batch
              /\ calls' = calls @@ [k \in batch |->
                            checkCall(user, "search", resourceOf(sr.hits[k]), clock)]
              /\ pc' = "awaitBatch"
              /\ UNCHANGED <<result, auditLog, auditError>>
     ELSE /\ pending' = {}
          /\ UNCHANGED calls
          /\ secureSearchReturn(sr, authorized)

\* the for loop of filterAuthorizedResults from i = start: the next batch is
\* mapped, which issues its checks, or the loop ends and secureSearch goes on
filterLoop(sr, start, authorized) ==
  /\ i' = start
  /\ authorizedResults' = authorized
  /\ batchResults' = Empty
  /\ IF start < Len(sr.hits)
     THEN LET batch == (start + 1)..Min(start + batchSize, Len(sr.hits))
          IN  /\ pending' = batch
              /\ calls' = calls @@ [k \in batch |->
                            checkCall(user, "search", resourceOf(sr.hits[k]), clock)]
              /\ pc' = "awaitBatch"
              /\ UNCHANGED <<result, auditLog, auditError>>
     ELSE /\ pending' = {}
          /\ UNCHANGED calls
          /\ secureSearchReturn(sr, authorized)

\* searchRecords resolves in secureSearch
SearchResolves(lists, extras) ==
  /\ pc = "awaitSearch" /\ op = "secureSearch"
  /\ \E hits \in lists, more \in extras :
       LET sr == [hits |-> hits, totalHits |-> Len(hits) + more]
       IN  /\ IndexAnswers(hits, more, searchCall[1])
           /\ searchResults' = sr
           /\ filterLoop(sr, 0, <<>>)
  /\ UNCHANGED outside
  /\ UNCHANGED <<user, clock, op, recordId, outcome, options, searchCall>>

\* searchRecords rejects and the catch block answers with an empty result
SearchRejects_swallowed ==
  /\ pc = "awaitSearch"
  /\ pc' = "resolved"
  /\ result' = [hits |-> <<>>, record |-> Empty]
  /\ UNCHANGED outside
  /\ UNCHANGED <<user, clock, op, recordId, searchResults, i, pending, calls, outcome,
                 batchResults, authorizedResults, auditLog, options, searchCall, auditError>>

\* searchRecords rejects: the catch block rethrows
SearchRejects ==
  /\ pc = "awaitSearch"
  /\ pc' = "rejected"
  /\ result' = [error |-> "Search failed"]
  /\ UNCHANGED outside
  /\ UNCHANGED <<user, clock, op, recordId, searchResults, i, pending, calls, outcome,
                 batchResults, authorizedResults, auditLog, options, searchCall, auditError>>

\* permit.check settles for one task of the current batch
BatchCheckSettles(outcomes) ==
  /\ pc = "awaitBatch"
  /\ \E k \in pending, out \in outcomes :
       /\ outcome' = outcome @@ (k :> out)
       /\ batchResults' = batchResults @@
            (k :> batchTask(user, searchResults.hits[k], calls[k].action, out))
       /\ searchResults' =
            [searchResults EXCEPT
               !.hits[k] = afterBatchTask(user, @, calls[k].action, out)]
       /\ pending' = pending \ {k}
  /\ UNCHANGED outside
  /\ UNCHANGED <<user, clock, op, recordId, pc, i, calls,
                 authorizedResults, result, auditLog, options, searchCall, auditError>>

\* Promise.all of the batch resolves: push the survivors, next iteration
BatchCompletes ==
  /\ pc = "awaitBatch" /\ pending = {}
  /\ filterLoop(searchResults, i + batchSize,
                pushBatch(authorizedResults, batchResults,
                          i + 1, Min(i + batchSize, Len(searchResults.hits))))
  /\ UNCHANGED outside
  /\ UNCHANGED <<user, clock, op, recordId, searchResults, outcome, options, searchCall>>

(* --------------------------- getAuthorizedRecord ----------------------- *)
\* the identifiers asked for: those of the indexed records and one of no record
RecordIds == 1..5

\* the arguments getAuthorizedRecord passes to searchRecords
recordSearchCall(id) ==
  [query |-> "", options |-> [filters |-> [objectID |-> id], limit |-> 1]]

getAuthorizedRecord ==
  /\ pc = "idle"
  /\ \E id \in RecordIds :
       /\ recordId' = id
       /\ searchCall' = <<recordSearchCall(id)>>
  /\ op' = "getAuthorizedRecord"
  /\ pc' = "awaitSearch"
  /\ UNCHANGED outside
  /\ UNCHANGED <<user, clock, searchResults, i, pending, calls, outcome,
                 batchResults, authorizedResults, result, auditLog, options, auditError>>

\* the audit log after logRecordAccess; a throw inside is swallowed
logRecordAccess(log, u, id, action, throws) ==
  IF throws THEN log
  ELSE Append(log, [action |-> action, userId |-> u.id, userRole |-> u.role,
                    userDepartment |-> u.department, recordId |-> id])

\* searchRecords('', {filters: {objectID: recordId}, limit: 1}) resolves
RecordSearchResolves ==
  /\ pc = "awaitSearch" /\ op = "getAuthorizedRecord"
  /\ \E hits \in SearchLists, more \in TotalExtras :
       /\ IndexAnswers(hits, more, searchCall[1])
       /\ searchResults' = [hits |-> hits, totalHits |-> Len(hits) + more]
       /\ IF Len(hits) = 0
          THEN /\ pc' = "rejected"
               /\ result' = [error |-> "Record not found"]
               /\ UNCHANGED <<pending, calls>>
          ELSE /\ pc' = "awaitCheck"
               /\ pending' = {1}
               /\ calls' = (1 :> checkCall(user, "read", resourceOf(hits[1]), clock))
               /\ UNCHANGED result
  /\ UNCHANGED outside
  /\ UNCHANGED <<user, clock, op, recordId, i, outcome, batchResults,
                 authorizedResults, auditLog, options, searchCall, auditError>>

\* permit.check settles for the record: the rest of getAuthorizedRecord
RecordCheckSettles ==
  /\ pc = "awaitCheck"
  /\ \E out \in PipelineOutcomes :
       LET record == searchResults.hits[1]
           hasPermission == checkPermission(user, calls[1].action, calls[1].resource, out)
           filteredResults == applySecurityFilters(user, <<record>>, clock)
       IN  /\ outcome' = (1 :> out)
           /\ pending' = {}
           /\ IF hasPermission.threw
              THEN /\ pc' = "rejected"
                   /\ result' = [error |-> "Permission check failed"]
                   /\ UNCHANGED <<auditLog, auditError>>
              ELSE IF ~hasPermission.value
              THEN /\ pc' = "rejected"
                   /\ result' = [error |-> "Access denied"]
                   /\ UNCHANGED <<auditLog, auditError>>
              ELSE IF Len(filteredResults) = 0
              THEN /\ pc' = "rejected"
                   /\ result' = [error |-> "Access denied due to security constraints"]
                   /\ UNCHANGED <<auditLog, auditError>>
              ELSE /\ \E throws \in BOOLEAN :
                        /\ auditLog' = logRecordAccess(auditLog, user, recordId, "read", throws)
                        /\ auditError' = throws
                   /\ result' = [record |-> sanitize(filteredResults[1])]
                   /\ pc' = "resolved"
           /\ searchResults' =
                IF ~hasPermission.threw /\ hasPermission.value /\ Len(filteredResults) > 0
                THEN [searchResults EXCEPT !.hits[1] = afterSanitize(@)]
                ELSE searchResults
  /\ UNCHANGED outside
  /\ UNCHANGED <<user, clock, op, recordId, i, calls, batchResults,
                 authorizedResults, options, searchCall>>

(* ------------------------- getAuthorizedSuggestions -------------------- *)
SuggestionTypes == {"all", "patient", "doctor"}

getSuggestionAttributes(type) ==
  CASE type = "patient" -> {"patient_name", "medical_record_number"}
    [] type = "doctor" -> {"doctor_name"}
    [] type = "diagnosis" -> {"diagnosis"}
    [] OTHER -> {"patient_name", "doctor_name", "diagnosis", "medical_record_number"}

\* hit.a || hit.b || ... as a field named text, absent when every operand is undefined
extractSuggestionText(hit, type) ==
  LET order == CASE type = "patient" -> <<"patient_name", "medical_record_number">>
                 [] type = "doctor" -> <<"doctor_name">>
                 [] type = "diagnosis" -> <<"diagnosis">>
                 [] OTHER -> <<"patient_name", "doctor_name", "diagnosis">>
      present == SelectSeq(order, LAMBDA f : Has(hit, f))
  IN  IF present = <<>> THEN Empty ELSE "text" :> hit[Head(present)]

\* the hit lists index.search answers getSuggestions with: the stored objects
\* cut down to the attributesToRetrieve of the call (objectID always comes)
SuggestionHitLists(type) ==
  LET cut(r) == Pick(indexPatientRecord(r), getSuggestionAttributes(type) \cup {"objectID"})
  IN  { [k \in 1..Len(rs) |-> cut(rs[k])] :
          rs \in { q \in UNION { [1..m -> Database] : m \in 0..MaxHits } :
                     \A a, b \in 1..Len(q) : a # b => q[a].id # q[b].id } }

\* suggestions.hits.map(hit => ({text, type, department: hit.department}))
getSuggestions(hits, type) ==
  [k \in 1..Len(hits) |->
     extractSuggestionText(hits[k], type) @@ ("type" :> type)
       @@ Field("department", hits[k], "department")]

\* the return value of getAuthorizedSuggestions for the upstream suggestions
filterSuggestions(u, suggestions) ==
  IF u.role # "hospital_admin"
  THEN SelectSeq(suggestions,
                 LAMBDA suggestion : ~Has(suggestion, "department")
                                       \/ suggestion.department = u.department)
  ELSE suggestions

getAuthorizedSuggestions ==
  /\ pc = "idle"
  /\ op' = "getAuthorizedSuggestions"
  /\ \E type \in SuggestionTypes : searchCall' = <<[query |-> "q", type |-> type]>>
  /\ pc' = "awaitSuggestions"
  /\ UNCHANGED outside
  /\ UNCHANGED <<user, clock, recordId, searchResults, i, pending, calls, outcome,
                 batchResults, authorizedResults, result, auditLog, options, auditError>>

\* index.search resolves in getSuggestions
SuggestionsResolve ==
  /\ pc = "awaitSuggestions"
  /\ \E hits \in SuggestionHitLists(searchCall[1].type) :
       LET suggestions == getSuggestions(hits, searchCall[1].type)
       IN  /\ searchResults' = [hits |-> suggestions, totalHits |-> Len(suggestions)]
           /\ result' = [suggestions |-> filterSuggestions(user, suggestions)]
  /\ pc' = "resolved"
  /\ UNCHANGED outside
  /\ UNCHANGED <<user, clock, op, recordId, i, pending, calls, outcome, batchResults,
                 authorizedResults, auditLog, options, searchCall, auditError>>

\* index.search rejects in getSuggestions, whose catch block returns []
SuggestionSearchRejects ==
  /\ pc = "awaitSuggestions"
  /\ searchResults' = NoSearch
  /\ result' = [suggestions |-> filterSuggestions(user, <<>>)]
  /\ pc' = "resolved"
  /\ UNCHANGED outside
  /\ UNCHANGED <<user, clock, op, recordId, i, pending, calls, outcome, batchResults,
                 authorizedResults, auditLog, options, searchCall, auditError>>

(* ---------------------------- specifications --------------------------- *)
Next ==
  \/ secureSearch
  \/ SearchResolves(SearchLists, TotalExtras)
  \/ SearchRejects
  \/ BatchCheckSettles(PipelineOutcomes)
  \/ BatchCompletes
  \/ getAuthorizedRecord
  \/ RecordSearchResolves
  \/ RecordCheckSettles

Spec == Init /\ [][Next]_vars

(* ----- the batching of filterAuthorizedResults over several windows ---- *)
\* the requester of the batching specification: a nurse restricted to the
\* patient of every second hit, so that both gates remove candidates
BatchUsers ==
  { [id |-> "u2", role |-> "registered_nurse", department |-> "cardiology",
     emergencyAccess |-> FALSE, assignedPatients |-> <<"P1">>] }

BatchOutcomes == { Resolves(Bool(TRUE)), Rejects }

\* hit lists longer than one batch
BatchLists == { BatchHits(n) : n \in (batchSize + 1)..MaxBatchHits }

InitBatch ==
  /\ user \in BatchUsers
  /\ clock = 480
  /\ options = NoOptions
  /\ Idle
  /\ NoRequest

NextBatch ==
  \/ secureSearch
  \/ SearchResolves(BatchLists, NoExtras)
  \/ SearchRejects
  \/ BatchCheckSettles(BatchOutcomes)
  \/ BatchCompletes

SpecBatch == InitBatch /\ [][NextBatch]_vars

\* the same with every policy call settling in the end and the continuation
\* of Promise.all run by the event loop once its promises have settled
\* a full window followed by a window of one candidate
LiveLists == { BatchHits(batchSize + 1) }

NextLive ==
  \/ secureSearch
  \/ SearchResolves(LiveLists, NoExtras)
  \/ SearchRejects
  \/ BatchCheckSettles(BatchOutcomes)
  \/ BatchCompletes

SpecLive ==
  /\ InitBatch /\ [][NextLive]_vars
  /\ WF_vars(BatchCheckSettles(BatchOutcomes))
  /\ WF_vars(BatchCompletes)

(* -------------- secureSearch called with options and any role --------- *)
CallRoles == Roles \cup {"admin", "department_head"}

CallUsers ==
  { [id |-> "u3", role |-> r, department |-> d, emergencyAccess |-> FALSE] :
      r \in CallRoles, d \in {"cardiology", "oncology"} }

\* the options argument: the default, and filters a caller may supply
SearchOptions ==
  { NoOptions,
    [filters |-> Empty],
    [filters |-> [recordType |-> "patient_record"]],
    [filters |-> [department |-> "oncology"]],
    [filters |-> [department |-> "cardiology", recordType |-> "patient_record"],
     limit |-> 1],
    [filters |-> [department |-> "oncology", priorityLevel |-> "high",
                  dateRange |-> "2024"]] }

InitCall ==
  /\ user \in CallUsers
  /\ clock = 480
  /\ options \in SearchOptions
  /\ Idle
  /\ NoRequest

NextCall ==
  \/ secureSearch
  \/ SearchResolves(SearchLists, TotalExtras)
  \/ SearchRejects
  \/ BatchCheckSettles(PipelineOutcomes)
  \/ BatchCompletes

SpecCall == InitCall /\ [][NextCall]_vars

\* both entry points of the service, for the requesters and options of SpecCall
SpecEntry == InitCall /\ [][Next]_vars

(* ------------------------ suggestions on their own --------------------- *)
InitSuggest ==
  /\ user \in CallUsers
  /\ clock = 480
  /\ options = NoOptions
  /\ Idle
  /\ NoRequest

NextSuggest ==
  \/ getAuthorizedSuggestions
  \/ SuggestionsResolve
  \/ SuggestionSearchRejects

SpecSuggest == InitSuggest /\ [][NextSuggest]_vars

(* ------------------- checkPermission called on its own ----------------- *)
PermitActions == {"read", "search", "export"}

checkPermissionCall ==
  /\ pc = "idle"
  /\ op' = "checkPermission"
  /\ \E action \in PermitActions, r \in Database :
       calls' = (1 :> checkCall(user, action, resourceOf(indexPatientRecord(r)), clock))
  /\ pending' = {1}
  /\ pc' = "awaitPermit"
  /\ UNCHANGED outside
  /\ UNCHANGED <<user, clock, recordId, searchResults, i, outcome, batchResults,
                 authorizedResults, result, auditLog, options, searchCall, auditError>>

PermitSettles ==
  /\ pc = "awaitPermit"
  /\ \E out \in PolicyOutcomes :
       LET r == checkPermission(user, calls[1].action, calls[1].resource, out)
       IN  /\ outcome' = (1 :> out)
           /\ IF r.threw
              THEN pc' = "rejected" /\ result' = [error |-> "Permission check failed"]
              ELSE pc' = "resolved" /\ result' = [value |-> r.value]
  /\ pending' = {}
  /\ UNCHANGED outside
  /\ UNCHANGED <<user, clock, op, recordId, searchResults, i, calls, batchResults,
                 authorizedResults, auditLog, options, searchCall, auditError>>

NextPermit == checkPermissionCall \/ PermitSettles

SpecPermit == Init /\ [][NextPermit]_vars

(* --------------------------- HTTP middleware --------------------------- *)
\* the variables of one invocation of the service and the state it shares
pipeline == <<user, clock, op, recordId, pc, searchResults, i, pending, calls, outcome,
              batchResults, authorizedResults, result, auditLog, options, searchCall,
              auditError>>

\* the roles a token may carry: the keys of roleMapping
TokenRoles == CallRoles \cup {"radiologist", "doctor"}

\* the payload login signs into the token
TokenClaims ==
  { [id |-> "u4", email |-> "u4@hospital.com", role |-> r, department |-> "cardiology",
     permissions |-> <<"search">>, assignedPatients |-> <<"P1">>, emergencyAccess |-> e]
      @@ sh @@ ex :
      r \in TokenRoles, e \in BOOLEAN, sh \in ShiftParts, ex \in ExpiryParts }

\* the Authorization header: none, a token jwt.verify refuses, a token it accepts
Headers ==
  {Empty} \cup {[token |-> [verifies |-> FALSE]]}
    \cup { [token |-> [verifies |-> TRUE, payload |-> c]] : c \in TokenClaims }

AdminRoutes ==
  {"POST /api/admin/initialize", "GET /api/admin/stats", "GET /api/admin/audit-logs",
   "POST /api/admin/user-access", "GET /api/admin/system-health"}

ExportRoute == "POST /api/search/export"

\* the middleware of a route, in order, and its handler
chain(route) ==
  IF route = ExportRoute
  THEN <<"authenticateToken", "checkAccessExpiry", "export">>
  ELSE <<"authenticateToken", "checkAccessExpiry", "requireRole", "handler">>

\* the array handed to requireRole on a route
allowedRoles(route) ==
  IF route \in {"GET /api/admin/stats", "GET /api/admin/system-health"}
  THEN {"hospital_admin", "department_head"}
  ELSE {"hospital_admin"}

\* what runs next for the request; nothing once a response was sent
Stage == IF res # Empty THEN "sent" ELSE chain(req.route)[req.step]

\* next()
next(r) == [r EXCEPT !.step = @ + 1]

\* res.status(status).json({error: {code}})
errorResponse(status, code) == [status |-> status, code |-> code]

\* req.user as authenticateToken builds it from the verified payload
reqUser(payload) ==
  Pick(payload, {"id", "email", "role", "department", "shiftStart", "shiftEnd",
                 "accessExpiry"})
    @@ ("permissions" :> (IF Has(payload, "permissions") THEN payload.permissions ELSE <<>>))

authenticateToken ==
  /\ Stage = "authenticateToken"
  /\ IF ~Has(req, "token")
     THEN res' = errorResponse(401, "TOKEN_MISSING") /\ UNCHANGED req
     ELSE IF ~req.token.verifies
     THEN res' = errorResponse(403, "TOKEN_INVALID") /\ UNCHANGED req
     ELSE /\ req' = ("user" :> reqUser(req.token.payload)) @@ next(req)
          /\ UNCHANGED res
  /\ UNCHANGED suspended
  /\ UNCHANGED pipeline

\* the error code checkAccessExpiry answers with, or "next"
accessExpiryCode(r, now) ==
  IF ~Has(r, "user") THEN "next"
  ELSE IF Has(r.user, "accessExpiry") /\ r.user.accessExpiry < now THEN "ACCESS_EXPIRED"
  ELSE IF /\ Has(r.user, "shiftStart") /\ Has(r.user, "shiftEnd")
          /\ LET currentTime == toTimeString5(now)
             IN  StrLess(currentTime, r.user.shiftStart)
                   \/ StrLess(r.user.shiftEnd, currentTime)
  THEN "OUTSIDE_SHIFT_HOURS"
  ELSE "next"

checkAccessExpiry ==
  /\ Stage = "checkAccessExpiry"
  /\ LET code == accessExpiryCode(req, clock)
     IN  IF code = "next"
         THEN req' = next(req) /\ UNCHANGED res
         ELSE res' = errorResponse(403, code) /\ UNCHANGED req
  /\ UNCHANGED suspended
  /\ UNCHANGED pipeline

roleMapping(role) ==
  CASE role = "hospital_admin" -> "admin"
    [] role \in {"department_head", "attending_physician", "resident_doctor",
                 "radiologist"} -> "doctor"
    [] role \in {"registered_nurse", "nurse_practitioner", "lab_technician",
                 "pharmacist"} -> "nurse"
    [] role = "temp_staff" -> "temporary_staff"
    [] OTHER -> role

\* allowedRoles.some(...)
hasAccess(userRole, allowed) ==
  \E allowedRole \in allowed :
    userRole = allowedRole \/ roleMapping(userRole) = roleMapping(allowedRole)

requireRole ==
  /\ Stage = "requireRole"
  /\ IF ~Has(req, "user")
     THEN res' = errorResponse(401, "AUTH_REQUIRED") /\ UNCHANGED req
     ELSE IF ~hasAccess(req.user.role, allowedRoles(req.route))
     THEN res' = errorResponse(403, "INSUFFICIENT_PERMISSIONS") /\ UNCHANGED req
     ELSE req' = next(req) /\ UNCHANGED res
  /\ UNCHANGED suspended
  /\ UNCHANGED pipeline

\* the handler of an admin route runs and answers
adminHandler ==
  /\ Stage = "handler"
  /\ res' = [status |-> 200, handledBy |-> req.route]
  /\ UNCHANGED <<req, suspended>>
  /\ UNCHANGED pipeline

\* a request arriving: its route, its Authorization header, its body
Requests(routes, headers, bodies) ==
  { [route |-> r, step |-> 1] @@ h @@ b : r \in routes, h \in headers, b \in bodies }

NoBody == {Empty}

\* no call of the service has been made for the request
NoInvocation == user = Empty /\ options = NoOptions /\ Idle

InitAuth ==
  /\ req \in Requests(AdminRoutes, Headers, NoBody)
  /\ res = Empty
  /\ suspended = <<>>
  /\ clock \in ClockSamples
  /\ NoInvocation

NextAuth ==
  \/ authenticateToken
  \/ checkAccessExpiry
  \/ requireRole
  \/ adminHandler

SpecAuth == InitAuth /\ [][NextAuth]_vars

(* ------------------------ POST /api/search/export ---------------------- *)
exportRoles == {"hospital_admin", "department_head", "attending_physician"}

\* a call of getAuthorizedRecord(u, id) from a route handler: a new invocation
\* of the service, with locals of its own
invoke(u, id) ==
  /\ user' = u
  /\ recordId' = id
  /\ searchCall' = <<recordSearchCall(id)>>
  /\ op' = "getAuthorizedRecord"
  /\ pc' = "awaitSearch"
  /\ searchResults' = NoSearch
  /\ i' = 0 /\ pending' = {}
  /\ calls' = Empty /\ outcome' = Empty /\ batchResults' = Empty
  /\ authorizedResults' = <<>>
  /\ result' = Empty
  /\ auditError' = FALSE
  /\ UNCHANGED <<clock, auditLog, options>>

\* the loop going on after a failure only when the record was returned
exportContinues_stopsOnFailure(n, recordIds, settled) ==
  n < Len(recordIds) /\ settled = "resolved"

\* for (const recordId of recordIds): another id is left after the n-th
exportContinues(n, recordIds, settled) == n < Len(recordIds)

\* authorizedRecords after the try/catch round the await
exportCollect(authorized, settled, value) ==
  IF settled = "resolved" THEN Append(authorized, value.record) ELSE authorized

\* the handler up to its first await
exportHandler ==
  /\ Stage = "export" /\ ~Has(req, "n")
  /\ IF Len(req.body.recordIds) = 0
     THEN /\ res' = [status |-> 400, message |-> "Validation failed"]
          /\ UNCHANGED req
          /\ UNCHANGED pipeline
     ELSE IF req.user.role \notin exportRoles
     THEN /\ res' = errorResponse(403, "EXPORT_DENIED")
          /\ UNCHANGED req
          /\ UNCHANGED pipeline
     ELSE /\ req' = [n |-> 1, authorizedRecords |-> <<>>, settled |-> <<>>] @@ req
          /\ invoke(req.user, req.body.recordIds[1])
          /\ UNCHANGED res
  /\ UNCHANGED suspended

\* getAuthorizedRecord has returned or thrown: the handler from that await to
\* the next one, or to its response
exportAwait ==
  /\ Stage = "export" /\ Has(req, "n")
  /\ pc \in {"resolved", "rejected"}
  /\ LET recordIds == req.body.recordIds
         authorized == exportCollect(req.authorizedRecords, pc, result)
         after == [req EXCEPT !.authorizedRecords = authorized,
                              !.settled = Append(@, result)]
     IN  IF exportContinues(req.n, recordIds, pc)
         THEN /\ req' = [after EXCEPT !.n = @ + 1]
              /\ invoke(req.user, recordIds[req.n + 1])
              /\ UNCHANGED res
         ELSE /\ req' = after
              /\ res' = IF Len(authorized) = 0
                        THEN errorResponse(403, "NO_AUTHORIZED_RECORDS")
                        ELSE [status |-> 200, recordCount |-> Len(authorized),
                              requestedRecords |-> Len(recordIds)]
              /\ UNCHANGED pipeline
  /\ UNCHANGED suspended

\* the tokens of the export requests: roles on both sides of the role test
ExportHeaders ==
  { [token |-> [verifies |-> TRUE, payload |-> c]] :
      c \in { d \in TokenClaims :
                /\ d.role \in {"hospital_admin", "attending_physician",
                               "registered_nurse", "resident_doctor"}
                /\ ~d.emergencyAccess
                /\ ~Has(d, "shiftStart") /\ ~Has(d, "accessExpiry") } }

\* recordIds of the body: none, stored and unknown ids, one and two of them
ExportBodies ==
  { [body |-> [recordIds |-> ids]] : ids \in {<<>>, <<1>>, <<5>>, <<1, 4>>, <<5, 1>>} }

InitExport ==
  /\ req \in Requests({ExportRoute}, ExportHeaders, ExportBodies)
  /\ res = Empty
  /\ suspended = <<>>
  /\ clock = 480
  /\ NoInvocation

NextExport ==
  \/ authenticateToken
  \/ checkAccessExpiry
  \/ exportHandler
  \/ exportAwait
  \/ RecordSearchResolves
  \/ SearchRejects
  \/ RecordCheckSettles

SpecExport == InitExport /\ [][NextExport]_vars

(* ----------------------- shifts that pass midnight --------------------- *)
\* shiftStart later than shiftEnd: 12:00 to 00:00 and 22:00 to 06:00
WrappedShifts ==
  { [shiftStart |-> toTimeString5(720), shiftEnd |-> toTimeString5(0)],
    [shiftStart |-> toTimeString5(1320), shiftEnd |-> toTimeString5(360)] }

\* times of day before, inside and after such shifts
WrapClock == {0, 359, 720, 1000, 1439}

WrapUsers ==
  { [id |-> "u5", email |-> "u5@hospital.com", role |-> r, department |-> "cardiology",
     emergencyAccess |-> e] @@ sh @@ ex :
      r \in {"registered_nurse", "resident_doctor"}, e \in BOOLEAN,
      sh \in WrappedShifts, ex \in ExpiryParts }

WrapLists == HitLists(TRUE, MaxHits)

\* a requester with such a shift: a request with their token arrives, and the
\* service is called with them
InitShift ==
  /\ user \in WrapUsers
  /\ req = [route |-> "GET /api/admin/stats", step |-> 1,
            token |-> [verifies |-> TRUE, payload |-> user]]
  /\ res = Empty
  /\ suspended = <<>>
  /\ clock \in WrapClock
  /\ options = NoOptions
  /\ Idle

NextShift ==
  \/ authenticateToken
  \/ checkAccessExpiry
  \/ secureSearch
  \/ SearchResolves(WrapLists, NoExtras)
  \/ SearchRejects
  \/ BatchCheckSettles(PipelineOutcomes)
  \/ BatchCompletes

SpecShift == InitShift /\ [][NextShift]_vars

(* ------------------------ concurrent invocations ----------------------- *)
\* the parameters and locals of the invocation that is running
Frame ==
  [user |-> user, op |-> op, recordId |-> recordId, pc |-> pc,
   searchResults |-> searchResults, i |-> i, pending |-> pending, calls |-> calls,
   outcome |-> outcome, batchResults |-> batchResults,
   authorizedResults |-> authorizedResults, result |-> result, options |-> options,
   searchCall |-> searchCall, auditError |-> auditError]

\* the frame of an invocation that has not started
newFrame(u) ==
  [user |-> u, op |-> "none", recordId |-> 0, pc |-> "idle",
   searchResults |-> NoSearch, i |-> 0, pending |-> {}, calls |-> Empty,
   outcome |-> Empty, batchResults |-> Empty, authorizedResults |-> <<>>,
   result |-> Empty, options |-> NoOptions, searchCall |-> <<>>, auditError |-> FALSE]

\* authorizedResults kept on the service instance instead of in the invocation
resumed_onInstance(f, running) ==
  [f EXCEPT !.authorizedResults = running.authorizedResults]

\* what an invocation finds when the event loop resumes it: its own locals
\* (const and let bindings of its own calls; the service has no field beyond
\* its two clients)
resumed(f, running) == f

\* the event loop leaves the running invocation at its await (or before its
\* start, or after its return) and resumes the other one
Switch ==
  /\ suspended # <<>>
  /\ LET f == resumed(suspended[1], Frame)
     IN  /\ user' = f.user /\ op' = f.op /\ recordId' = f.recordId /\ pc' = f.pc
         /\ searchResults' = f.searchResults /\ i' = f.i /\ pending' = f.pending
         /\ calls' = f.calls /\ outcome' = f.outcome /\ batchResults' = f.batchResults
         /\ authorizedResults' = f.authorizedResults /\ result' = f.result
         /\ options' = f.options /\ searchCall' = f.searchCall
         /\ auditError' = f.auditError
  /\ suspended' = <<Frame>>
  /\ UNCHANGED <<clock, auditLog, req, res>>

\* two requesters of different departments
PairUserA ==
  [id |-> "uA", role |-> "registered_nurse", department |-> "cardiology",
   emergencyAccess |-> FALSE]

PairUserB ==
  [id |-> "uB", role |-> "attending_physician", department |-> "oncology",
   emergencyAccess |-> FALSE]

PairLists == HitLists(TRUE, MaxHits)

InitPair ==
  /\ user = PairUserA
  /\ suspended = <<newFrame(PairUserB)>>
  /\ req = Empty /\ res = Empty
  /\ clock = 480
  /\ options = NoOptions
  /\ Idle

NextPair ==
  \/ Switch
  \/ secureSearch
  \/ SearchResolves(PairLists, NoExtras)
  \/ SearchRejects
  \/ BatchCheckSettles(BatchOutcomes)
  \/ BatchCompletes

SpecPair == InitPair /\ [][NextPair]_vars

(* ======================== properties of the claims ===================== *)
\* an explicit allow: the boolean true, or an object whose allow is the boolean true
IsAllow(out) ==
  /\ ~out.rejects
  /\ \/ out.value.t = "boolean" /\ out.value.v
     \/ /\ out.value.t = "object"
        /\ "allow" \in DOMAIN out.value.o
        /\ out.value.o["allow"].t = "boolean"
        /\ out.value.o["allow"].v

Done == pc \in {"resolved", "rejected"}

\* C1: checkPermission returns true exactly when the policy service resolved
\* with the boolean true or an object whose allow is the boolean true; on every
\* other response and on a throw or rejection it returns false, and it never throws.
C1_CheckPermissionNormalizes ==
  (op = "checkPermission" /\ Done) =>
    /\ pc = "resolved"
    /\ result.value = IsAllow(outcome[1])

\* a truthy response that is not an allow, and a rejection, both gave false
C1_Witness ==
  /\ op = "checkPermission" /\ pc = "resolved"
  /\ ~result.value
  /\ \/ outcome[1].rejects
     \/ outcome[1] = Resolves(Obj([allow |-> Str("true")]))

Hits == searchResults.hits

Positions == 1..Len(Hits)

\* the position of the candidate with this objectID in the backend's hit list
PosOf(id) == CHOOSE k \in Positions : Hits[k].objectID = id

Contains(records, id) == \E n \in 1..Len(records) : records[n].objectID = id

InternalFields == {"_department", "_patient_id", "_sensitivity_level"}

\* C2: a candidate whose policy check rejects or gives no allow is absent from
\* the output of filterAuthorizedResults, no exception escapes it, and every
\* candidate of every window is evaluated and kept exactly when its own check allowed it.
C2_FailClosedIsolation ==
  /\ pc = "rejected" => calls = Empty
  /\ pc = "resolved" => i >= Len(Hits) /\ DOMAIN outcome = Positions
  /\ \A k \in Positions :
       k <= i => /\ k \in DOMAIN outcome
                 /\ Contains(authorizedResults, Hits[k].objectID) <=> IsAllow(outcome[k])

\* a rejected check in the first window next to kept candidates of both windows
C2_Witness ==
  /\ op = "secureSearch" /\ pc = "resolved"
  /\ \E a, b \in 1..10 :
       /\ outcome[a].rejects /\ ~Contains(authorizedResults, Hits[a].objectID)
       /\ a < b /\ Contains(authorizedResults, Hits[b].objectID)
  /\ \E c \in Positions : c > 10 /\ Contains(authorizedResults, Hits[c].objectID)

\* the sensitivity tier and the subject identifier a candidate carries
TierOf(cand) ==
  IF "_sensitivity_level" \in DOMAIN cand THEN cand["_sensitivity_level"] ELSE "normal"

SubjectOf(cand) ==
  IF "_patient_id" \in DOMAIN cand THEN {cand["_patient_id"]}
  ELSE IF "patient_id" \in DOMAIN cand THEN {cand["patient_id"]}
  ELSE {}

Minutes(hhmm) == (hhmm[1] * 10 + hhmm[2]) * 60 + hhmm[4] * 10 + hhmm[5]

\* the shift predicate on times of day
ShiftPredicate(u, now) ==
  \/ "shiftStart" \notin DOMAIN u
  \/ "shiftEnd" \notin DOMAIN u
  \/ Minutes(u.shiftStart) <= now % 1440 /\ now % 1440 <= Minutes(u.shiftEnd)

Expired(u, now) == "accessExpiry" \in DOMAIN u /\ u.accessExpiry < now

\* the Security Rule Set applied to a candidate with its security metadata
PassesRuleSet(u, cand, now) ==
  \/ u.emergencyAccess
  \/ /\ u.role = "temp_staff" => ~Expired(u, now)
     /\ u.role \in {"registered_nurse", "resident_doctor"} => ShiftPredicate(u, now)
     /\ (u.role = "registered_nurse" /\ "assignedPatients" \in DOMAIN u)
          => SubjectOf(cand) \cap Range(u.assignedPatients) # {}
     /\ TierOf(cand) = "high" => u.role \in {"hospital_admin", "department_head",
                                             "attending_physician"}

\* C3: every hit secureSearch returns is a candidate the policy check with
\* action 'search' allowed and that passes every applicable local security rule.
C3_BothGates ==
  (op = "secureSearch" /\ pc = "resolved") =>
    \A n \in 1..Len(result.hits) :
      LET k == PosOf(result.hits[n].objectID)
      IN  /\ Contains(Hits, result.hits[n].objectID)
          /\ k \in DOMAIN outcome /\ IsAllow(outcome[k])
          /\ calls[k].action = "search"
          /\ PassesRuleSet(user, Hits[k], clock)

\* C4: no record secureSearch or getAuthorizedRecord hands back carries
\* _department, _patient_id or _sensitivity_level.
C4_Sanitized ==
  pc = "resolved" =>
    /\ op = "secureSearch" =>
         \A n \in 1..Len(result.hits) : DOMAIN result.hits[n] \cap InternalFields = {}
    /\ op = "getAuthorizedRecord" => DOMAIN result.record \cap InternalFields = {}

\* a returned hit whose candidate carried all three internal fields
C4_Witness ==
  /\ op = "secureSearch" /\ pc = "resolved"
  /\ \E n \in 1..Len(result.hits) :
       InternalFields \subseteq DOMAIN Hits[PosOf(result.hits[n].objectID)]

\* the records are candidates of the hit list, in the hit list's order
IsSubsequence(records) ==
  /\ \A n \in 1..Len(records) : Contains(Hits, records[n].objectID)
  /\ \A a, b \in 1..Len(records) :
       a < b => PosOf(records[a].objectID) < PosOf(records[b].objectID)

\* C5: whatever the order in which the checks of a window settle, the output
\* of filterAuthorizedResults and applySecurityFilters is a subsequence of the
\* backend's hit list, across and within windows.
C5_OrderPreserved ==
  /\ IsSubsequence(authorizedResults)
  /\ (op = "secureSearch" /\ pc = "resolved") => IsSubsequence(result.hits)

\* hits of both windows returned after the remote and the local gate each removed some
C5_Witness ==
  /\ op = "secureSearch" /\ pc = "resolved"
  /\ Len(result.hits) < Len(authorizedResults)
  /\ Len(authorizedResults) < Len(Hits)
  /\ \E a, b \in 1..Len(result.hits) :
       /\ PosOf(result.hits[a].objectID) <= 10
       /\ PosOf(result.hits[b].objectID) > 10

\* C6: at most 10 policy checks are in flight at any moment, and no check of a
\* later window is issued before every check of the earlier windows settled.
C6_BoundedWindows ==
  /\ pending = (DOMAIN calls) \ (DOMAIN outcome)
  /\ Cardinality(pending) <= 10
  /\ \A k \in DOMAIN calls : \A j \in Positions :
       (j - 1) \div 10 < (k - 1) \div 10 => j \in DOMAIN outcome

\* a check of the second window in flight
C6_Witness ==
  /\ pc = "awaitBatch"
  /\ \E k \in pending : k > 10

\* C7: a requester with emergencyAccess passes applySecurityFilters for every
\* candidate, and secureSearch and getAuthorizedRecord still return a candidate
\* only if the policy check allowed it.
C7_EmergencyOverride ==
  user.emergencyAccess =>
    /\ (op = "secureSearch" /\ pc = "resolved") =>
         /\ result.hits = authorizedResults
         /\ \A k \in Positions :
              Contains(result.hits, Hits[k].objectID) <=> IsAllow(outcome[k])
    /\ (op = "getAuthorizedRecord" /\ Done /\ Len(Hits) = 1) =>
         /\ pc = "resolved" <=> IsAllow(outcome[1])
         /\ pc = "rejected" => result.error = "Access denied"

\* an emergency nurse outside the shift, past the expiry and with no assigned
\* patient gets the allowed candidate and not the denied one
C7_Witness ==
  /\ op = "secureSearch" /\ pc = "resolved"
  /\ user.emergencyAccess /\ user.role = "registered_nurse"
  /\ Expired(user, clock) /\ ~ShiftPredicate(user, clock)
  /\ "assignedPatients" \in DOMAIN user /\ user.assignedPatients = <<>>
  /\ Len(Hits) = 2 /\ Len(result.hits) = 1

AccessDeniedErrors == {"Access denied", "Access denied due to security constraints"}

\* what the claim promises of an invocation of an expired requester
ExpiredOutcome ==
  /\ (op = "secureSearch" /\ pc = "resolved") => result.hits = <<>>
  /\ (op = "getAuthorizedRecord" /\ Len(Hits) = 1) =>
       pc = "rejected" /\ result.error \in AccessDeniedErrors

\* C8 as stated: for a requester of any role without emergencyAccess whose
\* accessExpiry is earlier than the current time, secureSearch returns no hits
\* and getAuthorizedRecord fails with an access-denied error.
C8_ExpiredRejected ==
  (~user.emergencyAccess /\ Expired(user, clock) /\ Done) => ExpiredOutcome

\* C8 as amended: for a temp_staff requester without emergencyAccess whose
\* accessExpiry is earlier than the current time, secureSearch returns no hits
\* and getAuthorizedRecord fails with an access-denied error, even when the
\* policy service allows.
C8_TempStaffExpired ==
  (user.role = "temp_staff" /\ ~user.emergencyAccess /\ Expired(user, clock) /\ Done)
    => ExpiredOutcome

\* an expired temp_staff requester loses a candidate the policy service allowed
C8_Witness ==
  /\ op = "secureSearch" /\ pc = "resolved"
  /\ user.role = "temp_staff" /\ ~user.emergencyAccess /\ Expired(user, clock)
  /\ authorizedResults # <<>> /\ result.hits = <<>>

ShiftRoles == {"registered_nurse", "resident_doctor"}

\* C9: the shift predicate of the pipeline and of the gateway is true when a
\* bound is absent and otherwise exactly when shiftStart <= HH:MM <= shiftEnd;
\* applySecurityFilters rejects on shift grounds exactly when the requester has
\* no emergency flag, is a registered_nurse or resident_doctor and the
\* predicate is false.
C9_ShiftRule ==
  /\ \A k \in DOMAIN calls :
       calls[k].query.user.attributes["shift_active"] = ShiftPredicate(user, clock)
  /\ isWithinShiftHours(user, clock) = ShiftPredicate(user, clock)
  /\ (op = "secureSearch" /\ pc = "resolved") =>
       /\ \A n \in 1..Len(authorizedResults) :
            securityRule(user, authorizedResults[n], clock) = "shift"
              <=> (~user.emergencyAccess /\ user.role \in ShiftRoles
                   /\ ~ShiftPredicate(user, clock))
       /\ (~user.emergencyAccess /\ user.role \in ShiftRoles /\ ~ShiftPredicate(user, clock))
            => result.hits = <<>>

\* a nurse one minute past the end of the shift loses an allowed candidate
C9_Witness ==
  /\ op = "secureSearch" /\ pc = "resolved"
  /\ ~user.emergencyAccess /\ user.role = "registered_nurse"
  /\ "shiftEnd" \in DOMAIN user /\ clock = 961
  /\ authorizedResults # <<>> /\ result.hits = <<>>

\* the patient of the database record behind a candidate
PatientOf(cand) == (CHOOSE r \in Database : r.id = cand.objectID).patientId

Assigned(u, cand) ==
  /\ PatientOf(cand) \in Range(u.assignedPatients)
  /\ "_patient_id" \in DOMAIN cand => cand["_patient_id"] \in Range(u.assignedPatients)

\* C10: for a registered_nurse without emergency access who has an
\* assigned-patient list, no candidate whose subject identifier is absent from
\* the list is in secureSearch's hits or returned by getAuthorizedRecord.
C10_NurseAssignment ==
  (user.role = "registered_nurse" /\ ~user.emergencyAccess
     /\ "assignedPatients" \in DOMAIN user /\ pc = "resolved") =>
    /\ op = "secureSearch" =>
         \A n \in 1..Len(result.hits) : Assigned(user, Hits[PosOf(result.hits[n].objectID)])
    /\ op = "getAuthorizedRecord" => Assigned(user, Hits[1])

\* the policy service allowed a nurse a candidate of patient P2 outside the
\* assigned list, and only the candidate of the assigned patient is returned
C10_Witness ==
  /\ op = "secureSearch" /\ pc = "resolved"
  /\ user.role = "registered_nurse" /\ ~user.emergencyAccess
  /\ "assignedPatients" \in DOMAIN user /\ user.assignedPatients = <<"P1">>
  /\ \E k \in Positions :
       /\ "_patient_id" \in DOMAIN Hits[k] /\ Hits[k]["_patient_id"] = "P2"
       /\ IsAllow(outcome[k])
       /\ ~Contains(result.hits, Hits[k].objectID)
  /\ Len(result.hits) = 1

\* the candidate of the backend's hit list behind a returned hit
CandidateOf(hit) == Hits[PosOf(hit.objectID)]

\* C11: with a requester without emergency access, a candidate whose
\* _sensitivity_level is high is in secureSearch's hits or returned by
\* getAuthorizedRecord only if the role is hospital_admin, department_head or
\* attending_physician.
C11_HighSensitivity ==
  (pc = "resolved" /\ ~user.emergencyAccess) =>
    /\ op = "secureSearch" =>
         \A n \in 1..Len(result.hits) :
           TierOf(CandidateOf(result.hits[n])) = "high"
             => user.role \in {"hospital_admin", "department_head", "attending_physician"}
    /\ op = "getAuthorizedRecord" =>
         (TierOf(Hits[1]) = "high"
            => user.role \in {"hospital_admin", "department_head", "attending_physician"})

\* the filters the caller supplied in options
ExplicitFilters == IF "filters" \in DOMAIN options THEN options.filters ELSE Empty

\* the filters searchRecords was called with, and the parts of the filter
\* string that reaches the index
CallFilters == searchCall[1].options.filters

IndexFilters == searchParams(searchCall[1].query, searchCall[1].options).filters

\* C12: when secureSearch is called with no explicit department filter, the
\* upstream search gets the requester's department as department filter if the
\* role is neither hospital_admin nor admin, and no department filter otherwise.
C12_DepartmentDefault ==
  (op = "secureSearch" /\ "department" \notin DOMAIN ExplicitFilters) =>
    IF user.role \in {"hospital_admin", "admin"}
    THEN /\ "department" \notin DOMAIN CallFilters
         /\ \A part \in IndexFilters : part[1] # "department"
    ELSE /\ "department" \in DOMAIN CallFilters
         /\ CallFilters["department"] = user.department
         /\ <<"department", user.department>> \in IndexFilters

\* a nurse of oncology searching with a recordType filter only: the call
\* carries both filters and the hit is the oncology record
C12_Witness ==
  /\ op = "secureSearch" /\ pc = "resolved"
  /\ user.role = "registered_nurse" /\ user.department = "oncology"
  /\ options = [filters |-> [recordType |-> "patient_record"]]
  /\ CallFilters = [recordType |-> "patient_record", department |-> "oncology"]
  /\ Len(Hits) = 1 /\ Hits[1].objectID = 4

\* the identifiers of the records the backend holds
StoredIds == { r.id : r \in Database }

\* the invocation ended because the call to the search backend itself failed
BackendFailed == pc = "rejected" /\ result.error = "Search failed"

\* C13: a record returned by getAuthorizedRecord(user, recordId) has objectID
\* equal to recordId, and when the backend answers and holds no record with
\* that identifier the call fails with 'Record not found'.
C13_RecordById ==
  (op = "getAuthorizedRecord" /\ Done /\ ~BackendFailed) =>
    /\ pc = "resolved" => result.record.objectID = recordId
    /\ recordId \notin StoredIds => pc = "rejected" /\ result.error = "Record not found"

\* C14: getAuthorizedRecord fails with 'Record not found' exactly when the
\* lookup returned no hit; when a hit exists and the policy check with action
\* 'read' gives no allow or fails, it fails with 'Access denied', not with
\* not-found and not with the policy service's own error; neither case
\* returns a record.
C14_NotFoundOrDenied ==
  (op = "getAuthorizedRecord" /\ Done /\ ~BackendFailed) =>
    /\ (pc = "rejected" /\ result.error = "Record not found") <=> Len(Hits) = 0
    /\ Len(Hits) = 0 => calls = Empty
    /\ (Len(Hits) = 1 /\ ~IsAllow(outcome[1])) =>
         /\ calls[1].action = "read"
         /\ pc = "rejected" /\ result.error = "Access denied"
    /\ pc = "rejected" => "record" \notin DOMAIN result

\* the policy service failed for an existing record: access denied
C14_Witness ==
  /\ op = "getAuthorizedRecord" /\ pc = "rejected"
  /\ Len(Hits) = 1 /\ outcome[1].rejects
  /\ result.error = "Access denied"

\* C15: a denial of getAuthorizedRecord by the policy check and a denial by a
\* local security rule reach the caller as the same error with the same
\* message (the one the policy denial produces, 'Access denied').
C15_DenialsAlike ==
  (op = "getAuthorizedRecord" /\ pc = "rejected" /\ Len(Hits) = 1) =>
    result = [error |-> "Access denied"]

\* C16: when the call to the search backend fails, secureSearch and
\* getAuthorizedRecord reject with the backend's error, which is neither
\* 'Record not found' nor an access-denied error; no policy check is issued
\* and nothing is returned or audited for the invocation.
C16_UpstreamFailure ==
  /\ [](BackendFailed => calls = Empty /\ DOMAIN result = {"error"} /\ auditLog = <<>>)
  /\ [][SearchRejects =>
          /\ pc' = "rejected"
          /\ "error" \in DOMAIN result'
          /\ result'.error \notin {"Record not found"} \cup AccessDeniedErrors
          /\ calls' = Empty /\ outcome' = Empty]_vars

\* the backend failed under a getAuthorizedRecord and under a secureSearch
C16_Witness ==
  /\ BackendFailed
  /\ op \in {"secureSearch", "getAuthorizedRecord"}
  /\ searchCall # <<>> /\ calls = Empty

\* C17: for every successful secureSearch, securityInfo.filteredCount is the
\* number of candidates the backend returned for the invocation minus the
\* number of hits returned to the caller; when no candidate is authorized the
\* call resolves with empty hits and filteredCount equal to the number of
\* candidates evaluated.
C17_FilteredCount ==
  /\ (op = "secureSearch" /\ pc = "resolved") =>
       result.securityInfo.filteredCount = Len(Hits) - Len(result.hits)
  /\ (op = "secureSearch" /\ Done /\ ~BackendFailed
        /\ \A k \in Positions : ~IsAllow(outcome[k])) =>
       /\ pc = "resolved"
       /\ result.hits = <<>>
       /\ result.securityInfo.filteredCount = Len(Hits)

\* C18: every invocation of secureSearch, getAuthorizedRecord and
\* getAuthorizedSuggestions has emitted exactly one audit event by the time it
\* completes, whatever its outcome (a logger whose emission itself failed
\* set aside).
C18_OneAuditEvent ==
  (Done /\ ~auditError) => Len(auditLog) = 1

\* what secureSearch returns for the candidates that came out of the policy gate
SearchResultOf(authorized) ==
  LET kept == SelectSeq(authorized, LAMBDA r : securityRule(user, r, clock) = "pass")
  IN  [hits |-> kept,
       totalHits |-> Len(kept),
       securityInfo |-> [userRole |-> user.role, userDepartment |-> user.department,
                         filteredCount |-> searchResults.totalHits - Len(kept)]]

\* C19: a failure while building or emitting the audit event is swallowed:
\* secureSearch and getAuthorizedRecord resolve with exactly the result of a
\* run whose emission succeeded, and never reject because of it.
C19_AuditFailureSwallowed ==
  auditError =>
    /\ pc = "resolved"
    /\ op = "secureSearch" => result = SearchResultOf(authorizedResults)
    /\ op = "getAuthorizedRecord" =>
         /\ IsAllow(outcome[1])
         /\ result = [record |-> [f \in DOMAIN Hits[1] \ InternalFields |-> Hits[1][f]]]

\* the emission failed and the search still returned a hit
C19_Witness ==
  /\ op = "secureSearch" /\ pc = "resolved"
  /\ auditError /\ auditLog = <<>>
  /\ Len(result.hits) = 1 /\ Len(Hits) = 2

\* the departments of the records a suggestion can stem from: its own
\* department field, or else those of the stored records with its text
FromDepartments(suggestion) ==
  IF "department" \in DOMAIN suggestion THEN {suggestion.department}
  ELSE IF "text" \in DOMAIN suggestion
  THEN { r.department : r \in { q \in Database : q.patientName = suggestion.text } }
  ELSE {}

\* C20: getAuthorizedSuggestions issues no policy check; for a role outside
\* {hospital_admin, admin} every returned suggestion is of the requester's
\* department, and for a role inside the set the upstream suggestions are
\* returned unfiltered.
C20_SuggestionsByDepartment ==
  (op = "getAuthorizedSuggestions" /\ pc = "resolved") =>
    /\ calls = Empty
    /\ IF user.role \in {"hospital_admin", "admin"}
       THEN result.suggestions = searchResults.hits
       ELSE \A n \in 1..Len(result.suggestions) :
              FromDepartments(result.suggestions[n]) \subseteq {user.department}

\* C29: for a requester whose role is neither hospital_admin nor admin and whose
\* department is not empty, the department filter secureSearch sends to the
\* backend is the requester's own department whatever department the caller
\* supplied, and the caller's other filters are passed through unchanged.
C29_DepartmentOverride ==
  (/\ op = "secureSearch" /\ searchCall # <<>>
   /\ user.role \notin {"hospital_admin", "admin"}
   /\ user.department # "") =>
    /\ DOMAIN CallFilters = DOMAIN ExplicitFilters \cup {"department"}
    /\ CallFilters["department"] = user.department
    /\ \A part \in IndexFilters :
         part[1] = "department" => part[2] = user.department
    /\ <<"department", user.department>> \in IndexFilters
    /\ \A f \in DOMAIN ExplicitFilters \ {"department"} :
         /\ CallFilters[f] = ExplicitFilters[f]
         /\ <<FilterAttribute[f], ExplicitFilters[f]>> \in IndexFilters

\* a cardiology nurse asking for oncology records of high priority: the call
\* goes out for cardiology, with the priority and date filters as supplied
C29_Witness ==
  /\ op = "secureSearch" /\ pc = "resolved"
  /\ user.role = "registered_nurse" /\ user.department = "cardiology"
  /\ ExplicitFilters = [department |-> "oncology", priorityLevel |-> "high",
                        dateRange |-> "2024"]
  /\ CallFilters = [department |-> "cardiology", priorityLevel |-> "high",
                    dateRange |-> "2024"]
  /\ IndexFilters = {<<"department", "cardiology">>, <<"priority_level", "high">>,
                     <<"date_range", "2024">>}

\* the values an object holds under some key
Holds(o, v) == \E k \in DOMAIN o : o[k] = v

\* C23: the query checkPermission sends carries the requester's id as subject
\* key, the requester's own role and department, the on-shift boolean, the
\* access expiry and the assigned-patient list as subject attributes, the
\* action exactly as the caller passed it, the candidate's own type as resource
\* type, and the candidate's department, subject identifier and sensitivity
\* tier ('normal' by default) as resource attributes.
C23_QuerySent ==
  (op = "checkPermission" /\ 1 \in DOMAIN calls) =>
    LET q == calls[1].query
        r == calls[1].resource
        a == q.user.attributes
    IN  /\ q.user.key = user.id
        /\ a["role"] = user.role
        /\ a["department"] = user.department
        /\ a["shift_active"] = ShiftPredicate(user, clock)
        /\ Has(user, "accessExpiry") => Holds(a, user.accessExpiry)
        /\ a["assigned_patients"] =
             (IF Has(user, "assignedPatients") THEN user.assignedPatients ELSE <<>>)
        /\ q.action = calls[1].action
        /\ q.resource.type = r.type
        /\ Holds(q.resource.attributes, r.department)
        /\ Holds(q.resource.attributes, r.patientId)
        /\ Holds(q.resource.attributes,
                 IF Has(r, "sensitivityLevel") THEN r.sensitivityLevel ELSE "normal")

\* C27: in secureSearch a candidate passes the remote policy check, then the
\* Security Rule Set, then the removal of the internal security fields, then the
\* audit: the rule set is handed candidates that still carry their department,
\* subject-identifier and sensitivity metadata, and only candidates that passed
\* the rules have been sanitized.
C27_StageOrder ==
  (op = "secureSearch" /\ pc = "resolved") =>
    /\ \A k \in DOMAIN authorizedResults :
         InternalFields \cap DOMAIN CandidateOf(authorizedResults[k])
           \subseteq DOMAIN authorizedResults[k]
    /\ \A k \in DOMAIN authorizedResults :
         authorizedResults[k] = sanitize(CandidateOf(authorizedResults[k]))
           => Contains(result.hits, authorizedResults[k].objectID)

\* C28: when every policy call settles in the end, filterAuthorizedResults
\* returns for any candidate list, and by then one policy check has been issued
\* for each candidate, none skipped and none issued twice, also when earlier
\* checks were denied or failed.
C28_EveryCandidateChecked ==
  /\ (pc = "awaitBatch") ~>
       (pc = "resolved" /\ DOMAIN calls = Positions /\ DOMAIN outcome = Positions)
  /\ [][\A k \in pending' \ pending : k \notin DOMAIN calls]_vars

\* the loop has returned after a failed check in the first window, with the
\* candidates of the second window checked all the same
C28_Witness ==
  /\ op = "secureSearch" /\ pc = "resolved"
  /\ Len(Hits) > batchSize
  /\ outcome[1].rejects
  /\ DOMAIN calls = Positions

\* C22: sanitization does not mutate its input and is idempotent: through
\* filterAuthorizedResults and getAuthorizedRecord the candidate objects the
\* backend supplied keep their fields, internal ones included, the requester
\* object is unchanged, and sanitizing a sanitized record changes nothing.
C22_SanitizePure ==
  /\ [][(pc \in {"awaitBatch", "awaitCheck"})
         => (searchResults' = searchResults /\ user' = user)]_vars
  /\ [](\A k \in Positions :
          /\ sanitize(sanitize(Hits[k])) = sanitize(Hits[k])
          /\ DOMAIN sanitize(Hits[k]) = DOMAIN Hits[k] \ InternalFields)

\* a record was returned sanitized while the backend's object still carries
\* its three internal fields
C22_Witness ==
  /\ op = "getAuthorizedRecord" /\ pc = "resolved"
  /\ InternalFields \subseteq DOMAIN Hits[1]
  /\ InternalFields \cap DOMAIN result.record = {}
  /\ sanitize(result.record) = result.record

\* C24: after authenticateToken accepts a token, req.user carries id, email,
\* role, department, permissions, shiftStart, shiftEnd, accessExpiry,
\* assignedPatients and emergencyAccess, each equal to the claim of the token.
C24_RequestUser ==
  Has(req, "user") =>
    \A f \in {"id", "email", "role", "department", "permissions", "shiftStart",
              "shiftEnd", "accessExpiry", "assignedPatients", "emergencyAccess"} :
      Has(req.token.payload, f) =>
        Has(req.user, f) /\ req.user[f] = req.token.payload[f]

\* C25: a request reaches the handler of a route guarded by requireRole only
\* if the requester's role is one the route documents as allowed
\* (hospital_admin; also department_head for stats and system-health); any
\* other role that comes to requireRole is answered 403 INSUFFICIENT_PERMISSIONS.
C25_DocumentedRolesOnly ==
  /\ (Has(res, "handledBy") \/ (Has(req, "route") /\ Stage = "handler"))
       => req.user.role \in allowedRoles(req.route)
  /\ (Has(req, "user") /\ req.step = 3 /\ res # Empty
        /\ req.user.role \notin allowedRoles(req.route))
       => res = errorResponse(403, "INSUFFICIENT_PERMISSIONS")

\* the records of the lookups that returned one, in the order of the lookups
Successes(settled) ==
  LET ok == SelectSeq(settled, LAMBDA r : Has(r, "record"))
  IN  [n \in 1..Len(ok) |-> ok[n].record]

\* C26: on POST /api/search/export a requester whose role is not hospital_admin,
\* department_head or attending_physician gets 403 EXPORT_DENIED with no record
\* looked up; otherwise the exported records are exactly those of the requested
\* ids for which getAuthorizedRecord succeeded, recordCount is their number, a
\* failure on one id leaves the remaining ids processed, and with no success the
\* response is 403 NO_AUTHORIZED_RECORDS. (Requests the validators accept.)
C26_Export ==
  (Has(req, "user") /\ Stage \in {"export", "sent"} /\ Len(req.body.recordIds) > 0) =>
    IF req.user.role \notin exportRoles
    THEN /\ op = "none" /\ searchCall = <<>> /\ calls = Empty
         /\ res # Empty => res = errorResponse(403, "EXPORT_DENIED")
    ELSE /\ Has(req, "n") => req.authorizedRecords = Successes(req.settled)
         /\ res # Empty =>
              /\ Len(req.settled) = Len(req.body.recordIds)
              /\ IF Len(Successes(req.settled)) = 0
                 THEN res = errorResponse(403, "NO_AUTHORIZED_RECORDS")
                 ELSE /\ res.status = 200
                      /\ res.recordCount = Len(Successes(req.settled))

\* two ids were asked for, the first lookup failed and the second returned a
\* record: one record is exported
C26_Witness ==
  /\ Has(res, "recordCount") /\ res.recordCount = 1
  /\ Len(req.body.recordIds) = 2
  /\ Has(req.settled[1], "error")
  /\ Has(req.settled[2], "record")
  /\ req.authorizedRecords = <<req.settled[2].record>>

\* C30 as stated: for a requester whose shiftStart is later than shiftEnd the
\* shift predicate is false at every time of day: checkAccessExpiry rejects
\* every request with OUTSIDE_SHIFT_HOURS, isShiftActive reports false to the
\* policy service, and the pipeline's shift rule rejects every candidate of a
\* registered_nurse or resident_doctor requester.
C30_AlwaysOutsideShift ==
  StrLess(user.shiftEnd, user.shiftStart) =>
    /\ req.step <= 2
    /\ (req.step = 2 /\ res # Empty) => res = errorResponse(403, "OUTSIDE_SHIFT_HOURS")
    /\ \A k \in DOMAIN calls : ~calls[k].query.user.attributes["shift_active"]
    /\ (op = "secureSearch" /\ pc = "resolved"
          /\ user.role \in {"registered_nurse", "resident_doctor"})
         => result.hits = <<>>

\* C30, amended: the same, where checkAccessExpiry answers ACCESS_EXPIRED when
\* the access has expired and OUTSIDE_SHIFT_HOURS otherwise, and the shift rule
\* rejects every candidate of a requester without emergency access.
C30_WrappedShift ==
  StrLess(user.shiftEnd, user.shiftStart) =>
    /\ ~isWithinShiftHours(user, clock) /\ ~isShiftActive(user, clock)
    /\ req.step <= 2
    /\ (req.step = 2 /\ res # Empty) =>
         res = errorResponse(403, IF Expired(user, clock) THEN "ACCESS_EXPIRED"
                                  ELSE "OUTSIDE_SHIFT_HOURS")
    /\ \A k \in DOMAIN calls : ~calls[k].query.user.attributes["shift_active"]
    /\ (op = "secureSearch" /\ pc = "resolved" /\ ~user.emergencyAccess
          /\ user.role \in {"registered_nurse", "resident_doctor"})
         => result.hits = <<>>

\* a nurse on a 12:00 to 00:00 shift at 16:40, access not expired, no emergency
\* access: the request is refused as outside the shift, and a search whose
\* candidate the policy service allowed returns no hit
C30_Witness ==
  /\ user.role = "registered_nurse" /\ ~user.emergencyAccess
  /\ ~Has(user, "accessExpiry")
  /\ user.shiftStart = toTimeString5(720) /\ clock = 1000
  /\ res = errorResponse(403, "OUTSIDE_SHIFT_HOURS")
  /\ op = "secureSearch" /\ pc = "resolved"
  /\ Len(Hits) > 0 /\ IsAllow(outcome[1])
  /\ result.hits = <<>>

\* the hits an invocation's candidates give when it runs alone with the policy
\* responses it received
AloneHits(f) ==
  LET hits == f.searchResults.hits
      positions == [k \in 1..Len(hits) |-> k]
      allowed == SelectSeq(positions, LAMBDA k : IsAllow(f.outcome[k]))
  IN  applySecurityFilters(f.user, [n \in 1..Len(allowed) |-> sanitize(hits[allowed[n]])],
                           clock)

\* an invocation holds and returns what it would hold and return alone
AsAlone(f) ==
  /\ f.searchCall # <<>> =>
       f.searchCall[1].options.filters = [department |-> f.user.department]
  /\ \A k \in DOMAIN f.calls :
       /\ f.calls[k].query.user.key = f.user.id
       /\ f.calls[k].query.resource.key = f.searchResults.hits[k].objectID
  /\ \A n \in 1..Len(f.authorizedResults) :
       \E k \in DOMAIN f.outcome :
         IsAllow(f.outcome[k]) /\ f.authorizedResults[n] = sanitize(f.searchResults.hits[k])
  /\ f.pc = "resolved" =>
       f.result = [hits |-> AloneHits(f), totalHits |-> Len(AloneHits(f)),
                   securityInfo |->
                     [userRole |-> f.user.role, userDepartment |-> f.user.department,
                      filteredCount |-> f.searchResults.totalHits - Len(AloneHits(f))]]
  /\ f.pc = "rejected" => f.result = [error |-> "Search failed"]

\* the audit entries are those of the invocations that returned, each with the
\* requester and the count of its own invocation
OwnAudit(frames) ==
  \A n \in 1..Len(auditLog) :
    \E f \in frames :
      /\ f.pc = "resolved"
      /\ auditLog[n] = [action |-> "search", userId |-> f.user.id, userRole |-> f.user.role,
                        userDepartment |-> f.user.department,
                        resultCount |-> Len(f.result.hits)]

\* C21: invocations on the same service instance, interleaved at their
\* suspension points, each return the result they would return alone with the
\* same upstream and policy responses; no invocation's hits, counts or audit
\* data hold candidates or requester data of another.
C21_Isolation ==
  /\ AsAlone(Frame)
  /\ \A n \in 1..Len(suspended) : AsAlone(suspended[n])
  /\ OwnAudit({Frame} \cup Range(suspended))

\* both invocations have returned hits, those of each are of its own
\* department, and each has left its own audit entry
C21_Witness ==
  /\ pc = "resolved" /\ suspended[1].pc = "resolved"
  /\ Len(result.hits) = 2 /\ Len(suspended[1].result.hits) = 1
  /\ user.id # suspended[1].user.id
  /\ \A n \in 1..2 : result.hits[n].department = user.department
  /\ suspended[1].result.hits[1].department = suspended[1].user.department
  /\ Len(auditLog) = 2 /\ auditLog[1].userId # auditLog[2].userId

====
